---- MODULE Spec2Model ----
(***************************************************************************)
(* A model of objax/nn/layers.py: Sequential's signature-aware keyword     *)
(* forwarding, Dropout, MovingAverage, BatchNorm, SyncedBatchNorm and the  *)
(* construction of Conv2D.                                                 *)
(*                                                                         *)
(* Tensor values are exact rationals <<n, d>> (d > 0, lowest terms).       *)
(* A vector is a sequence of rationals, a batch a sequence of vectors      *)
(* (shape (N, C): N examples of C channels).                               *)
(***************************************************************************)
EXTENDS Integers, Sequences, FiniteSets, TLC

\* ------------------------------------------------------------------ bounds

\* Longest list of entries given to Sequential.
MaxEntries == 2
\* Draws the generator hands out before the model stops calling Dropout.
MaxDraws == 2
\* Elements of the tensor given to Dropout.
DropLen == 2
\* Largest buffer_size of a MovingAverage.
MaxBuf == 3
\* Calls made to one MovingAverage.
MaxMACalls == 3
\* Calls made to one BatchNorm.
MaxBNCalls == 3
\* Calls made to one SyncedBatchNorm.
MaxSBNCalls == 2
\* Largest number of devices (replicas) a SyncedBatchNorm runs on.
MaxDev == 2
\* Largest channel count given to Conv2D.
MaxConvChan == 6
\* Largest group count given to Conv2D.
MaxGroups == 3
\* Calls made to one ExponentialMovingAverage.
MaxEMACalls == 2

\* ------------------------------------------------------- exact arithmetic

Abs(n) == IF n < 0 THEN -n ELSE n

RECURSIVE GCD(_, _)
GCD(a, b) == IF b = 0 THEN a ELSE GCD(b, a % b)

\* The rational n/d in lowest terms with a positive denominator.
Norm(n, d) ==
    LET g == GCD(Abs(n), Abs(d))
        s == IF d < 0 THEN -1 ELSE 1
    IN  <<(s * n) \div g, (s * d) \div g>>

R(n) == <<n, 1>>
LCM(a, b) == (a \div GCD(a, b)) * b
RAdd(a, b) ==
    LET d == LCM(a[2], b[2])
    IN  Norm(a[1] * (d \div a[2]) + b[1] * (d \div b[2]), d)
RSub(a, b) ==
    LET d == LCM(a[2], b[2])
    IN  Norm(a[1] * (d \div a[2]) - b[1] * (d \div b[2]), d)
RMul(a, b) == Norm(a[1] * b[1], a[2] * b[2])
RGeq(a, b) == a[1] * b[2] >= b[1] * a[2]

\* x / y as the array engine computes it: IEEE 754 division, so a division
\* by zero yields an infinity or a NaN instead of raising.
RDiv(a, b) ==
    IF b[1] = 0
    THEN IF a[1] > 0 THEN "inf" ELSE IF a[1] < 0 THEN "-inf" ELSE "nan"
    ELSE Norm(a[1] * b[2], a[2] * b[1])

RECURSIVE RSum(_)
RSum(s) == IF s = << >> THEN R(0) ELSE RAdd(Head(s), RSum(Tail(s)))

\* jn.mean of a non-empty sequence of rationals.
RMean(s) == RMul(RSum(s), <<1, Len(s)>>)

\* ------------------------------------------------------------------ state

VARIABLES
    \* Sequential: the entries given at construction (each entry is the
    \* parameter list inspect.signature reports for it), and the last call:
    \* its arguments, the invocations it made, how it ended and its result.
    seq_entries, seq_x, seq_kwargs, seq_log, seq_status, seq_ret,
    \* Dropout: self.keep, the number of keys self.keygen has handed out,
    \* and the last call: its arguments, the local keep, the generator
    \* state before it, the mask drawn and the result.
    drop_self_keep, gen_state, drop_status, drop_x, drop_training,
    drop_dropout_keep, drop_keep, drop_gen_before, drop_mask, drop_ret,
    \* MovingAverage: buffer_size and init_value given at construction,
    \* self.buffer, the inputs of the calls that returned so far, the last
    \* result and how the last call ended.
    ma_buffer_size, ma_init_value, ma_buffer, ma_inputs, ma_ret, ma_status,
    \* BatchNorm: momentum, the Tracked States running_mean and running_var,
    \* the Trainable Parameters gamma and beta, the batches of the training
    \* calls so far, the (input, output) pairs of the evaluation calls since
    \* the last training call, and the last call.
    bn_momentum, bn_running_mean, bn_running_var, bn_gamma, bn_beta,
    bn_trained, bn_evals, bn_last,
    \* SyncedBatchNorm: the number of replicas, momentum, each replica's copy
    \* of running_mean, running_var, gamma and beta, and the last call with
    \* the running statistics before it.
    sbn_devices, sbn_momentum, sbn_running_mean, sbn_running_var, sbn_gamma,
    sbn_beta, sbn_last,
    \* Conv2D: the arguments of the last Conv2D.__init__, how it ended, the
    \* parameters it created (name and shape) and self.groups.
    conv_status, conv_args, conv_params, conv_groups,
    \* ExponentialMovingAverage: shape and momentum given at construction,
    \* the Tracked State avg, the number of calls so far, and the last call:
    \* its input, how it ended and its result.
    ema_shape, ema_momentum, ema_avg, ema_calls, ema_x, ema_status, ema_ret

seqVars == <<seq_entries, seq_x, seq_kwargs, seq_log, seq_status, seq_ret>>
dropVars == <<drop_self_keep, gen_state, drop_status, drop_x, drop_training,
              drop_dropout_keep, drop_keep, drop_gen_before, drop_mask, drop_ret>>
maVars == <<ma_buffer_size, ma_init_value, ma_buffer, ma_inputs, ma_ret,
            ma_status>>

bnVars == <<bn_momentum, bn_running_mean, bn_running_var, bn_gamma, bn_beta,
            bn_trained, bn_evals, bn_last>>

sbnVars == <<sbn_devices, sbn_momentum, sbn_running_mean, sbn_running_var,
             sbn_gamma, sbn_beta, sbn_last>>
convVars == <<conv_status, conv_args, conv_params, conv_groups>>
emaVars == <<ema_shape, ema_momentum, ema_avg, ema_calls, ema_x, ema_status,
             ema_ret>>

vars == <<seqVars, dropVars, maVars, bnVars, sbnVars, convVars, emaVars>>

\* ------------------------------------------------------------- Sequential

\* A parameter as inspect.signature reports it.
Param(name, kind, required) == [name |-> name, kind |-> kind, required |-> required]

\* The signatures of the entries the model composes.
SigX == <<Param("x", "POSITIONAL_OR_KEYWORD", TRUE)>>
SigInp == <<Param("inp", "POSITIONAL_OR_KEYWORD", TRUE)>>
SigXTraining == <<Param("x", "POSITIONAL_OR_KEYWORD", TRUE),
                  Param("training", "POSITIONAL_OR_KEYWORD", TRUE)>>
SigDropout == <<Param("x", "POSITIONAL_OR_KEYWORD", TRUE),
                Param("training", "POSITIONAL_OR_KEYWORD", TRUE),
                Param("dropout_keep", "POSITIONAL_OR_KEYWORD", FALSE)>>
SigCatchAll == <<Param("x", "POSITIONAL_OR_KEYWORD", TRUE),
                 Param("kwargs", "VAR_KEYWORD", FALSE)>>
SigInpCatchAll == <<Param("inp", "POSITIONAL_OR_KEYWORD", TRUE),
                    Param("training", "POSITIONAL_OR_KEYWORD", FALSE),
                    Param("kw", "VAR_KEYWORD", FALSE)>>
SigEmpty == << >>

Signatures == {SigX, SigInp, SigXTraining, SigDropout, SigCatchAll,
               SigInpCatchAll, SigEmpty}

\* The names a call of Sequential can pass as **kwargs. "x" cannot be one:
\* it is the name of __call__'s own positional parameter.
KwNames == {"training", "dropout_keep", "inp"}
KwValues == BOOLEAN
KwargSets == UNION {[D -> KwValues] : D \in SUBSET KwNames}
NoKwargs == [k \in {} |-> TRUE]

SeqInputs == {0, 1}

\* The lists of at most n entries.
RECURSIVE EntryLists(_)
EntryLists(n) ==
    IF n = 0 THEN {<< >>}
    ELSE LET shorter == EntryLists(n - 1)
         IN  shorter \cup {Append(l, s) : l \in {m \in shorter : Len(m) = n - 1},
                                          s \in Signatures}

\* `k in s`: the keys of inspect.signature(f).parameters.
SigNames(s) == {s[i].name : i \in 1..Len(s)}

\* A variant: the first parameter is tested instead of the last.
LastIsVarKeywordMutFirst(s) == s[1].kind = "VAR_KEYWORD"

\* next(reversed(s.values())).kind == inspect.Parameter.VAR_KEYWORD
LastIsVarKeyword(s) == s[Len(s)].kind = "VAR_KEYWORD"

\* {k: v for k, v in kwargs.items() if k in s}
FilterKwargs(s, kwargs) ==
    [k \in {n \in DOMAIN kwargs : n \in SigNames(s)} |-> kwargs[k]]

\* The local_kwargs of one step of the loop.
LocalKwargs(s, kwargs) ==
    IF s # << >>
    THEN IF LastIsVarKeyword(s) THEN kwargs ELSE FilterKwargs(s, kwargs)
    ELSE NoKwargs

\* Whether Python can bind the call f(x, **kw) to the signature s: x goes to
\* the first parameter, which must take a positional argument; a keyword
\* that names the parameter x went to is a second value for it; a keyword
\* no parameter can take needs a **catch-all; and every other required
\* parameter must be given.
Binds(s, kw) ==
    /\ s # << >>
    /\ s[1].kind \in {"POSITIONAL_ONLY", "POSITIONAL_OR_KEYWORD", "VAR_POSITIONAL"}
    /\ \A k \in DOMAIN kw :
         \/ \E i \in 2..Len(s) :
              s[i].name = k /\ s[i].kind \in {"POSITIONAL_OR_KEYWORD", "KEYWORD_ONLY"}
         \/ /\ \E i \in 1..Len(s) : s[i].kind = "VAR_KEYWORD"
            /\ ~(s[1].name = k /\ s[1].kind = "POSITIONAL_OR_KEYWORD")
    /\ \A i \in 2..Len(s) :
         (s[i].required /\ s[i].kind \in {"POSITIONAL_OR_KEYWORD", "KEYWORD_ONLY"})
            => s[i].name \in DOMAIN kw

\* What the i-th entry computes from its input and the keywords it is given:
\* a function that tells the entries, their inputs and their keywords apart.
EntryResult(i, x, kw) ==
    3 * x + i + (IF "training" \in DOMAIN kw /\ kw["training"] THEN 1 ELSE 0)

\* A variant: the entry's result is dropped and the input kept.
ChainMutDiscard(i, x, kw) == x

\* x = f(x, **local_kwargs): the entry's result becomes the next input.
Chain(i, x, kw) == EntryResult(i, x, kw)

\* for f in self: ... x = f(x, **local_kwargs), from entry i on. An entry
\* that raises ends the call: the exception propagates out of __call__.
RECURSIVE RunFrom(_, _, _, _, _)
RunFrom(entries, kwargs, i, x, log) ==
    IF i > Len(entries)
    THEN [log |-> log, status |-> "returned", ret |-> x]
    ELSE LET kw == LocalKwargs(entries[i], kwargs)
             call == [entry |-> i, x |-> x, kwargs |-> kw]
         IN  IF Binds(entries[i], kw)
             THEN RunFrom(entries, kwargs, i + 1, Chain(i, x, kw),
                          Append(log, call))
             ELSE [log |-> Append(log, call), status |-> "raised", ret |-> x]

\* Sequential.__call__(x, **kwargs)
SequentialCall(x, kwargs) ==
    LET r == RunFrom(seq_entries, kwargs, 1, x, << >>)
    IN  /\ seq_x' = x
        /\ seq_kwargs' = kwargs
        /\ seq_log' = r.log
        /\ seq_status' = r.status
        /\ seq_ret' = r.ret
        /\ UNCHANGED seq_entries

SeqIdle ==
    /\ seq_x = 0
    /\ seq_kwargs = NoKwargs
    /\ seq_log = << >>
    /\ seq_status = "idle"
    /\ seq_ret = 0

\* Sequential(entries): ModuleList keeps the entries in the order given.
SequentialInit == seq_entries \in EntryLists(MaxEntries) /\ SeqIdle

SeqNone == seq_entries = << >> /\ SeqIdle

\* ---------------------------------------------------------------- Dropout

\* Python's None, and the truth value `or` tests: None and 0.0 are false.
None == << >>
Truthy(v) == v # None /\ v[1] # 0

\* The keep-probabilities the model constructs and overrides with.
KeepValues == {R(0), <<1, 2>>, R(1), <<3, 2>>}
DropInputs == [1..DropLen -> {R(1), R(2)}]

\* keep = dropout_keep or self.keep
EffectiveKeep(dropout_keep, self_keep) ==
    IF Truthy(dropout_keep) THEN dropout_keep ELSE self_keep

\* A variant: the training flag is not tested.
DropoutIsIdentityMutKeepOnly(training, keep) == RGeq(keep, R(1))

\* if not training or keep >= 1: return x
DropoutIsIdentity(training, keep) == ~training \/ RGeq(keep, R(1))

\* self.keygen(): the generator hands out a key and advances its state.
Keygen(state) == state + 1

\* jr.bernoulli(key, keep, x.shape): the masks a draw can produce; an element
\* can come out true only if keep > 0 and false only if keep < 1.
Bernoulli(keep, n) ==
    {m \in [1..n -> BOOLEAN] :
        \A i \in 1..n : /\ m[i] => keep[1] > 0
                        /\ ~m[i] => ~RGeq(keep, R(1))}

\* jn.where(keep_mask, x / keep, 0)
DropoutApply(mask, x, keep) ==
    [i \in 1..Len(x) |-> IF mask[i] THEN RDiv(x[i], keep) ELSE R(0)]

\* Dropout.__call__(x, training, dropout_keep)
DropoutCall(x, training, dropout_keep) ==
    LET keep == EffectiveKeep(dropout_keep, drop_self_keep)
    IN  /\ drop_status' = "called"
        /\ drop_x' = x
        /\ drop_training' = training
        /\ drop_dropout_keep' = dropout_keep
        /\ drop_keep' = keep
        /\ drop_gen_before' = gen_state
        /\ IF DropoutIsIdentity(training, keep)
           THEN /\ drop_ret' = x
                /\ drop_mask' = << >>
                /\ gen_state' = gen_state
           ELSE /\ gen_state < MaxDraws
                /\ gen_state' = Keygen(gen_state)
                /\ \E mask \in Bernoulli(keep, Len(x)) :
                     /\ drop_mask' = mask
                     /\ drop_ret' = DropoutApply(mask, x, keep)
        /\ UNCHANGED drop_self_keep

DropIdle ==
    /\ gen_state = 0
    /\ drop_status = "idle"
    /\ drop_x = << >>
    /\ drop_training = FALSE
    /\ drop_dropout_keep = None
    /\ drop_keep = None
    /\ drop_gen_before = 0
    /\ drop_mask = << >>
    /\ drop_ret = << >>

\* Dropout(keep, generator)
DropoutInit == drop_self_keep \in KeepValues /\ DropIdle

DropNone == drop_self_keep = R(1) /\ DropIdle

\* ---------------------------------------------------------- MovingAverage

MAInitValues == {R(0), R(1)}
MAInputs == {R(3), R(6), R(9)}

\* A variant: the newest slot is dropped instead of the oldest.
ShiftInMutDropNewest(buffer, x) == Append(SubSeq(buffer, 1, Len(buffer) - 1), x)

\* jn.concatenate([self.buffer.value[1:], x[None]])
ShiftIn(buffer, x) == Append(Tail(buffer), x)

\* MovingAverage.__call__(x), for a scalar x (shape ())
MovingAverageCall(x) ==
    /\ Len(ma_inputs) < MaxMACalls
    /\ ma_buffer' = ShiftIn(ma_buffer, x)
    /\ ma_ret' = RMean(ma_buffer')
    /\ ma_inputs' = Append(ma_inputs, x)
    /\ ma_status' = "returned"
    /\ UNCHANGED <<ma_buffer_size, ma_init_value>>

\* The shapes jn.concatenate joins along axis 0: the same rank, and the same
\* extent on every other axis. It does not broadcast.
Concatenable(a, b) ==
    /\ Len(a) = Len(b)
    /\ Len(a) >= 1
    /\ \A i \in 2..Len(a) : a[i] = b[i]

\* The shapes of the inputs that are not scalars.
MAOtherShapes == {<<1>>, <<2>>}

\* MovingAverage.__call__(x) for an x of shape xshape that does not join
\* self.buffer.value[1:]: jn.concatenate raises before self.buffer.value is
\* assigned.
MovingAverageCallRaises(xshape) ==
    /\ ~Concatenable(<<Len(ma_buffer) - 1>>, <<1>> \o xshape)
    /\ ma_status' = "raised"
    /\ UNCHANGED <<ma_buffer_size, ma_init_value, ma_buffer, ma_inputs, ma_ret>>

\* jn.zeros((buffer_size,) + shape) + init_value
MovingAverageBuffer(buffer_size, init_value) ==
    [i \in 1..buffer_size |-> RAdd(R(0), init_value)]

\* MovingAverage(shape=(), buffer_size, init_value)
MovingAverageInit ==
    /\ ma_buffer_size \in 1..MaxBuf
    /\ ma_init_value \in MAInitValues
    /\ ma_buffer = MovingAverageBuffer(ma_buffer_size, ma_init_value)
    /\ ma_inputs = << >>
    /\ ma_ret = R(0)
    /\ ma_status = "idle"

MANone ==
    /\ ma_buffer_size = 1
    /\ ma_init_value = R(0)
    /\ ma_buffer = MovingAverageBuffer(1, R(0))
    /\ ma_inputs = << >>
    /\ ma_ret = R(0)
    /\ ma_status = "idle"

\* -------------------------------------------------------------- BatchNorm

\* Tensors of shape (1, C) are vectors of C rationals; tensors of shape
\* (N, C) are sequences of N such vectors. The redux axis is 0.

\* Broadcasting of shapes (1, C) and (1, C'): equal, or one of them 1.
Broadcastable(a, b) == Len(a) = Len(b) \/ Len(a) = 1 \/ Len(b) = 1
BroadcastLen(a, b) == IF Len(a) >= Len(b) THEN Len(a) ELSE Len(b)
At(a, i) == IF Len(a) = 1 THEN a[1] ELSE a[i]

VAdd(a, b) == [i \in 1..BroadcastLen(a, b) |-> RAdd(At(a, i), At(b, i))]
VSub(a, b) == [i \in 1..BroadcastLen(a, b) |-> RSub(At(a, i), At(b, i))]
VMul(a, b) == [i \in 1..BroadcastLen(a, b) |-> RMul(At(a, i), At(b, i))]
VScale(r, a) == [i \in 1..Len(a) |-> RMul(r, a[i])]

\* jn.zeros(dims), jn.ones(dims) for dims = (1, nin)
Zeros(nin) == [i \in 1..nin |-> R(0)]
Ones(nin) == [i \in 1..nin |-> R(1)]

\* x.mean(self.redux, keepdims=True): the mean over the batch axis.
MeanOverBatch(x) ==
    [c \in 1..Len(x[1]) |-> RMean([n \in 1..Len(x) |-> x[n][c]])]

\* x ** 2
Squared(x) == [n \in 1..Len(x) |-> VMul(x[n], x[n])]

\* m = x.mean(...); v = (x ** 2).mean(...) - m ** 2
BatchMean(x) == MeanOverBatch(x)
BatchVar(x, m) == VSub(MeanOverBatch(Squared(x)), VMul(m, m))

\* A variant: the step is weighted by momentum instead of 1 - momentum.
RunningUpdateMutMomentum(running, stat, momentum) ==
    VAdd(running, VScale(momentum, VSub(stat, running)))

\* running + (1 - self.momentum) * (stat - running)
RunningUpdate(running, stat, momentum) ==
    VAdd(running, VScale(RSub(R(1), momentum), VSub(stat, running)))

\* eps, the constructor's numerical-stability term.
Eps == <<1, 1000000>>

\* gamma * (x - m) * rsqrt(v + eps) + beta, element by element. rsqrt is not
\* rational: an element is kept as the term scale * rsqrt(radicand) + shift.
Normalize(x, m, v, gamma, beta) ==
    [n \in 1..Len(x) |->
        LET centred == VMul(gamma, VSub(x[n], m))
            radicand == VAdd(v, <<Eps>>)
            width == BroadcastLen(centred, VAdd(radicand, beta))
        IN  [c \in 1..width |->
                [scale |-> At(centred, c),
                 radicand |-> At(radicand, c),
                 shift |-> At(beta, c)]]]

\* The channel counts and the batches the model constructs and calls with.
ChannelCounts == {1, 2}
Momenta == {<<1, 2>>, <<3, 4>>}
BNBatches ==
    { << <<R(0)>>, <<R(2)>> >>,
      << <<R(1)>>, <<R(5)>> >>,
      << <<R(0), R(1)>>, <<R(2), R(5)>> >>,
      << <<R(3), R(3)>>, <<R(1), R(3)>> >> }

\* The statistics an evaluation call reads: m, v = running_mean, running_var.
\* A training call's replace them by the batch's.
StatsUsed(training, batch, running) == IF training THEN batch ELSE running

\* The Tracked State after the call: updated in training mode only.
StateAfter(training, running, stat, momentum) ==
    IF training THEN RunningUpdate(running, stat, momentum) ELSE running

\* BatchNorm.__call__(x, training). A batch whose statistics do not
\* broadcast against the state makes the update raise: nothing changes.
BatchNormCall(x, training) ==
    LET m == BatchMean(x)
        v == BatchVar(x, m)
        um == StatsUsed(training, m, bn_running_mean)
        uv == StatsUsed(training, v, bn_running_var)
    IN  /\ bn_last.calls < MaxBNCalls
        /\ Broadcastable(m, bn_running_mean)
        /\ Broadcastable(x[1], bn_gamma)
        /\ bn_running_mean' = StateAfter(training, bn_running_mean, m, bn_momentum)
        /\ bn_running_var' = StateAfter(training, bn_running_var, v, bn_momentum)
        /\ bn_trained' = IF training THEN Append(bn_trained, x) ELSE bn_trained
        /\ LET y == Normalize(x, um, uv, bn_gamma, bn_beta)
           IN  /\ bn_last' = [calls |-> bn_last.calls + 1, x |-> x,
                              training |-> training, m |-> um, v |-> uv, y |-> y]
               /\ bn_evals' = IF training THEN << >> ELSE Append(bn_evals, <<x, y>>)
        /\ UNCHANGED <<bn_momentum, bn_gamma, bn_beta>>

NoCall == [calls |-> 0, x |-> << >>, training |-> FALSE, m |-> << >>,
           v |-> << >>, y |-> << >>]

\* BatchNorm(dims=(1, nin), redux=(0,), momentum, eps)
BatchNormConstructed(nin, momentum) ==
    /\ bn_momentum = momentum
    /\ bn_running_mean = Zeros(nin)
    /\ bn_running_var = Ones(nin)
    /\ bn_beta = Zeros(nin)
    /\ bn_gamma = Ones(nin)
    /\ bn_trained = << >>
    /\ bn_evals = << >>
    /\ bn_last = NoCall

BatchNormInit ==
    \E nin \in ChannelCounts, momentum \in Momenta : BatchNormConstructed(nin, momentum)

BNNone == BatchNormConstructed(1, <<1, 2>>)

\* -------------------------------------------------------- SyncedBatchNorm

\* functional.parallel.pmean(t): the mean of t over the replicas, the same
\* value on every replica. t maps each replica to its tensor of shape (1, C).
PMean(t) ==
    LET devices == DOMAIN t
        D == Cardinality(devices)
    IN  [d \in devices |->
            [c \in 1..Len(t[d]) |-> RMean([e \in 1..D |-> t[e][c]])]]

\* m = pmean(x.mean(self.redux, keepdims=True))
SyncedMean(xs) == PMean([d \in DOMAIN xs |-> MeanOverBatch(xs[d])])

\* A variant: each replica subtracts the square of its own mean.
SyncedVarMutLocalMean(xs, m) ==
    PMean([d \in DOMAIN xs |-> BatchVar(xs[d], BatchMean(xs[d]))])

\* v = pmean((x ** 2).mean(self.redux, keepdims=True) - m ** 2)
SyncedVar(xs, m) ==
    PMean([d \in DOMAIN xs |-> VSub(MeanOverBatch(Squared(xs[d])), VMul(m[d], m[d]))])

\* A variant: batch_norm_update is not tested.
SyncedStateAfterMutIgnoreFlag(training, batch_norm_update, running, stat, momentum) ==
    IF training THEN RunningUpdate(running, stat, momentum) ELSE running

\* if training: ... if batch_norm_update: running += ...
SyncedStateAfter(training, batch_norm_update, running, stat, momentum) ==
    IF training /\ batch_norm_update
    THEN RunningUpdate(running, stat, momentum)
    ELSE running

\* The batch each replica can hold: same shape (2, 1) on every replica.
SBNBatches == { << <<R(0)>>, <<R(2)>> >>, << <<R(1)>>, <<R(5)>> >> }

\* A batch of shape (2, 2): its statistics broadcast against the state of a
\* layer built with nin = 1.
SBNWideBatches == { << <<R(0), R(1)>>, <<R(2), R(5)>> >> }

\* SyncedBatchNorm.__call__(x, training, batch_norm_update), run by every
\* replica on its own shard xs[d] and its own copy of the state.
SyncedBatchNormCall(xs, training, batch_norm_update) ==
    \E bm \in {SyncedMean(xs)} : \E bv \in {SyncedVar(xs, bm)} :
    \E m \in {[d \in 1..sbn_devices |->
                 StatsUsed(training, bm[d], sbn_running_mean[d])]} :
    \E v \in {[d \in 1..sbn_devices |->
                 StatsUsed(training, bv[d], sbn_running_var[d])]} :
        /\ sbn_last.calls < MaxSBNCalls
        /\ sbn_running_mean' =
             [d \in 1..sbn_devices |->
                SyncedStateAfter(training, batch_norm_update,
                                 sbn_running_mean[d], bm[d], sbn_momentum)]
        /\ sbn_running_var' =
             [d \in 1..sbn_devices |->
                SyncedStateAfter(training, batch_norm_update,
                                 sbn_running_var[d], bv[d], sbn_momentum)]
        /\ sbn_last' = [calls |-> sbn_last.calls + 1, xs |-> xs, training |-> training,
                        batch_norm_update |-> batch_norm_update, m |-> m, v |-> v,
                        y |-> [d \in 1..sbn_devices |->
                                 Normalize(xs[d], m[d], v[d], sbn_gamma[d], sbn_beta[d])],
                        mean_before |-> sbn_running_mean,
                        var_before |-> sbn_running_var]
        /\ UNCHANGED <<sbn_devices, sbn_momentum, sbn_gamma, sbn_beta>>

\* SyncedBatchNorm0D(nin=1, momentum), replicated on `devices` replicas.
SyncedBatchNormConstructed(devices, momentum) ==
    /\ sbn_devices = devices
    /\ sbn_momentum = momentum
    /\ sbn_running_mean = [d \in 1..devices |-> Zeros(1)]
    /\ sbn_running_var = [d \in 1..devices |-> Ones(1)]
    /\ sbn_beta = [d \in 1..devices |-> Zeros(1)]
    /\ sbn_gamma = [d \in 1..devices |-> Ones(1)]
    /\ sbn_last = [calls |-> 0, xs |-> << >>, training |-> FALSE,
                   batch_norm_update |-> TRUE, m |-> << >>, v |-> << >>,
                   y |-> << >>, mean_before |-> << >>, var_before |-> << >>]

SyncedBatchNormInit ==
    \E devices \in 1..MaxDev, momentum \in Momenta :
        SyncedBatchNormConstructed(devices, momentum)

SBNNone == SyncedBatchNormConstructed(1, <<1, 2>>)

\* ----------------------------------------------------------------- Conv2D

KernelSizes == {1, 3}

\* A variant: only nin is asserted.
GroupsDivideMutNinOnly(nin, nout, groups) == nin % groups = 0

\* assert nin % groups == 0 ... assert nout % groups == 0
GroupsDivide(nin, nout, groups) == nin % groups = 0 /\ nout % groups = 0

\* self.b = TrainVar(jn.zeros((nout, 1, 1))) if use_bias else None
\* self.w = TrainVar(w_init((*util.to_tuple(k, 2), nin // groups, nout)))
Conv2DParams(nin, nout, k, groups, use_bias) ==
    (IF use_bias THEN {<<"b", <<nout, 1, 1>>>>} ELSE {})
        \cup {<<"w", <<k, k, nin \div groups, nout>>>>}

\* Conv2D.__init__(nin, nout, k, groups=groups, use_bias=use_bias): a failed
\* assertion raises before any parameter is created.
Conv2DInit(nin, nout, k, groups, use_bias) ==
    /\ conv_args' = [nin |-> nin, nout |-> nout, k |-> k, groups |-> groups,
                     use_bias |-> use_bias]
    /\ IF GroupsDivide(nin, nout, groups)
       THEN /\ conv_status' = "constructed"
            /\ conv_params' = Conv2DParams(nin, nout, k, groups, use_bias)
            /\ conv_groups' = groups
       ELSE /\ conv_status' = "AssertionError"
            /\ conv_params' = {}
            /\ conv_groups' = 0

\* ConvTranspose2D.__init__(nin, nout, k, use_bias): Conv2D.__init__ with the
\* channel counts swapped, groups = 1 and no bias, then its own bias.
ConvTranspose2DInit(nin, nout, k, use_bias) ==
    /\ conv_args' = [nin |-> nout, nout |-> nin, k |-> k, groups |-> 1,
                     use_bias |-> FALSE]
    /\ IF GroupsDivide(nout, nin, 1)
       THEN /\ conv_status' = "constructed"
            /\ conv_params' =
                 Conv2DParams(nout, nin, k, 1, FALSE)
                    \cup (IF use_bias THEN {<<"b", <<nout, 1, 1>>>>} ELSE {})
            /\ conv_groups' = 1
       ELSE /\ conv_status' = "AssertionError"
            /\ conv_params' = {}
            /\ conv_groups' = 0

ConvNone ==
    /\ conv_status = "none"
    /\ conv_args = [nin |-> 1, nout |-> 1, k |-> 1, groups |-> 1, use_bias |-> FALSE]
    /\ conv_params = {}
    /\ conv_groups = 0

\* ----------------------------------------------- ExponentialMovingAverage

\* Tensors of rank 0 or 1: the shape, () or (k,), and the elements in order.
Tensor(shape, data) == [shape |-> shape, data |-> data]
Size(shape) == IF shape = << >> THEN 1 ELSE shape[1]
Full(shape, v) == Tensor(shape, [i \in 1..Size(shape) |-> v])

\* Broadcasting of two such shapes: a scalar against anything, equal extents,
\* or an extent of 1 against any extent.
ShapesBroadcast(s, t) ==
    s = << >> \/ t = << >> \/ s[1] = t[1] \/ s[1] = 1 \/ t[1] = 1
BroadcastShape(s, t) ==
    IF s = << >> THEN t
    ELSE IF t = << >> THEN s
    ELSE IF s[1] = 1 THEN t ELSE s
Elem(a, i) == IF Size(a.shape) = 1 THEN a.data[1] ELSE a.data[i]

\* The setter of StateVar.value: the Tracked State holds the tensor it is
\* handed.
StateVarSet(tensor) == tensor

\* self.avg.value + (self.avg.value - x) * (self.momentum - 1)
ExponentialUpdate(avg, x, momentum) ==
    LET shape == BroadcastShape(avg.shape, x.shape)
    IN  Tensor(shape,
               [i \in 1..Size(shape) |->
                   RAdd(Elem(avg, i),
                        RMul(RSub(Elem(avg, i), Elem(x, i)),
                             RSub(momentum, R(1))))])

\* The shapes the model constructs the layer with, the shapes and values of
\* the inputs it calls it with, and the momentum.
EMAShapes == {<< >>, <<1>>, <<2>>}
EMAInputShapes == EMAShapes \cup {<<3>>}
EMAValues == {R(10), R(4)}
EMAInputs == {Full(shape, v) : shape \in EMAInputShapes, v \in EMAValues}
EMAMomentum == <<9, 10>>

\* ExponentialMovingAverage.__call__(x). An x that does not broadcast against
\* avg makes the subtraction raise: nothing is assigned.
ExponentialMovingAverageCall(x) ==
    /\ ema_calls < MaxEMACalls
    /\ ema_calls' = ema_calls + 1
    /\ ema_x' = x
    /\ IF ShapesBroadcast(ema_avg.shape, x.shape)
       THEN /\ ema_avg' = StateVarSet(ExponentialUpdate(ema_avg, x, ema_momentum))
            /\ ema_ret' = ema_avg'
            /\ ema_status' = "returned"
       ELSE /\ ema_status' = "raised"
            /\ UNCHANGED <<ema_avg, ema_ret>>
    /\ UNCHANGED <<ema_shape, ema_momentum>>

\* ExponentialMovingAverage(shape, momentum, init_value)
ExponentialMovingAverageConstructed(shape, momentum, init_value) ==
    /\ ema_shape = shape
    /\ ema_momentum = momentum
    /\ ema_avg = Full(shape, RAdd(R(0), init_value))
    /\ ema_calls = 0
    /\ ema_x = << >>
    /\ ema_status = "idle"
    /\ ema_ret = << >>

ExponentialMovingAverageInit ==
    \E shape \in EMAShapes :
        ExponentialMovingAverageConstructed(shape, EMAMomentum, R(0))

EMANone == ExponentialMovingAverageConstructed(<< >>, EMAMomentum, R(0))

\* --------------------------------------------------------- specifications

InitSequential ==
    SequentialInit /\ DropNone /\ MANone /\ BNNone /\ SBNNone /\ ConvNone
    /\ EMANone
NextSequential ==
    \E x \in SeqInputs, kwargs \in KwargSets :
        /\ SequentialCall(x, kwargs)
        /\ UNCHANGED <<dropVars, maVars, bnVars, sbnVars, convVars, emaVars>>
SpecSequential == InitSequential /\ [][NextSequential]_vars

InitDropout ==
    SeqNone /\ DropoutInit /\ MANone /\ BNNone /\ SBNNone /\ ConvNone
    /\ EMANone
NextDropout ==
    \E x \in DropInputs, training \in BOOLEAN, dropout_keep \in KeepValues \cup {None} :
        /\ DropoutCall(x, training, dropout_keep)
        /\ UNCHANGED <<seqVars, maVars, bnVars, sbnVars, convVars, emaVars>>
SpecDropout == InitDropout /\ [][NextDropout]_vars

InitMovingAverage ==
    SeqNone /\ DropNone /\ MovingAverageInit /\ BNNone /\ SBNNone /\ ConvNone
    /\ EMANone
NextMovingAverage ==
    \E x \in MAInputs :
        /\ MovingAverageCall(x)
        /\ UNCHANGED <<seqVars, dropVars, bnVars, sbnVars, convVars, emaVars>>
SpecMovingAverage == InitMovingAverage /\ [][NextMovingAverage]_vars

InitBatchNorm ==
    SeqNone /\ DropNone /\ MANone /\ BatchNormInit /\ SBNNone /\ ConvNone
    /\ EMANone
NextBatchNorm ==
    \E x \in BNBatches, training \in BOOLEAN :
        /\ BatchNormCall(x, training)
        /\ UNCHANGED <<seqVars, dropVars, maVars, sbnVars, convVars, emaVars>>
SpecBatchNorm == InitBatchNorm /\ [][NextBatchNorm]_vars

InitSyncedBatchNorm ==
    SeqNone /\ DropNone /\ MANone /\ BNNone /\ SyncedBatchNormInit /\ ConvNone
    /\ EMANone
NextSyncedBatchNorm ==
    \E xs \in [1..sbn_devices -> SBNBatches], training \in BOOLEAN,
       batch_norm_update \in BOOLEAN :
        /\ SyncedBatchNormCall(xs, training, batch_norm_update)
        /\ UNCHANGED <<seqVars, dropVars, maVars, bnVars, convVars, emaVars>>
SpecSyncedBatchNorm == InitSyncedBatchNorm /\ [][NextSyncedBatchNorm]_vars

InitConv2D ==
    SeqNone /\ DropNone /\ MANone /\ BNNone /\ SBNNone /\ ConvNone
    /\ EMANone
NextConv2D ==
    \/ \E nin \in 1..MaxConvChan, nout \in 1..MaxConvChan, k \in KernelSizes,
          groups \in 1..MaxGroups, use_bias \in BOOLEAN :
         /\ Conv2DInit(nin, nout, k, groups, use_bias)
         /\ UNCHANGED <<seqVars, dropVars, maVars, bnVars, sbnVars, emaVars>>
    \/ \E nin \in 1..MaxConvChan, nout \in 1..MaxConvChan, k \in KernelSizes,
          use_bias \in BOOLEAN :
         /\ ConvTranspose2DInit(nin, nout, k, use_bias)
         /\ UNCHANGED <<seqVars, dropVars, maVars, bnVars, sbnVars, emaVars>>
SpecConv2D == InitConv2D /\ [][NextConv2D]_vars

\* The layers that own Tracked State, one of them constructed and called per
\* behaviour: the layers share no state.
InitTrackedState ==
    /\ SeqNone /\ DropNone /\ ConvNone
    /\ \/ MovingAverageInit /\ BNNone /\ SBNNone /\ EMANone
       \/ MANone /\ BatchNormInit /\ SBNNone /\ EMANone
       \/ MANone /\ BNNone /\ SyncedBatchNormInit /\ EMANone
       \/ MANone /\ BNNone /\ SBNNone /\ ExponentialMovingAverageInit
NextTrackedState ==
    \/ \E x \in MAInputs :
         /\ BNNone /\ SBNNone /\ EMANone
         /\ MovingAverageCall(x)
         /\ UNCHANGED <<seqVars, dropVars, bnVars, sbnVars, convVars, emaVars>>
    \/ \E xshape \in MAOtherShapes :
         /\ BNNone /\ SBNNone /\ EMANone
         /\ MovingAverageCallRaises(xshape)
         /\ UNCHANGED <<seqVars, dropVars, bnVars, sbnVars, convVars, emaVars>>
    \/ \E x \in BNBatches, training \in BOOLEAN :
         /\ MANone /\ SBNNone /\ EMANone
         /\ BatchNormCall(x, training)
         /\ UNCHANGED <<seqVars, dropVars, maVars, sbnVars, convVars, emaVars>>
    \/ \E xs \in [1..sbn_devices -> SBNBatches]
                  \cup [1..sbn_devices -> SBNWideBatches],
          training \in BOOLEAN, batch_norm_update \in BOOLEAN :
         /\ MANone /\ BNNone /\ EMANone
         /\ SyncedBatchNormCall(xs, training, batch_norm_update)
         /\ UNCHANGED <<seqVars, dropVars, maVars, bnVars, convVars, emaVars>>
    \/ \E x \in EMAInputs :
         /\ MANone /\ BNNone /\ SBNNone
         /\ ExponentialMovingAverageCall(x)
         /\ UNCHANGED <<seqVars, dropVars, maVars, bnVars, sbnVars, convVars>>
SpecTrackedState == InitTrackedState /\ [][NextTrackedState]_vars

\* ----------------------------------------------------------------- claims

\* ------------------------------------------------------------- Sequential

\* An entry accepts arbitrary extra named arguments.
HasCatchAll(s) == \E i \in 1..Len(s) : s[i].kind = "VAR_KEYWORD"

\* The named arguments of Sequential's call whose names the entry declares.
DeclaredAmong(s, kwargs) == {k \in DOMAIN kwargs : \E i \in 1..Len(s) : s[i].name = k}

\* C1: every invocation Sequential makes passes the full named-argument set
\* to an entry with a catch-all, and to any other entry exactly the named
\* arguments whose names the entry declares, with their values; and
\* Sequential([f, g])(x, training=True) with f(x) and g(x, training) calls
\* f(x) and then g(f(x), training=True).
C1_Dispatch ==
    /\ \A j \in 1..Len(seq_log) :
         LET c == seq_log[j]
             s == seq_entries[c.entry]
         IN  IF HasCatchAll(s)
             THEN c.kwargs = seq_kwargs
             ELSE /\ DOMAIN c.kwargs = DeclaredAmong(s, seq_kwargs)
                  /\ \A k \in DOMAIN c.kwargs : c.kwargs[k] = seq_kwargs[k]
    /\ ( /\ seq_entries = <<SigX, SigXTraining>>
         /\ seq_status # "idle"
         /\ seq_kwargs = [k \in {"training"} |-> TRUE] )
       => seq_log = << [entry |-> 1, x |-> seq_x, kwargs |-> NoKwargs],
                       [entry |-> 2, x |-> EntryResult(1, seq_x, NoKwargs),
                        kwargs |-> [k \in {"training"} |-> TRUE]] >>

\* One call in which an entry without a catch-all is given some of the named
\* arguments and not others, and an entry with a catch-all is given them all.
C1_Witness ==
    /\ seq_status = "returned"
    /\ seq_entries = <<SigXTraining, SigCatchAll>>
    /\ DOMAIN seq_kwargs = {"training", "dropout_keep"}
    /\ Len(seq_log) = 2
    /\ DOMAIN seq_log[1].kwargs = {"training"}
    /\ seq_log[2].kwargs = seq_kwargs

\* The entry declares nothing besides its single positional input.
OnlyPositionalInput(s) ==
    Len(s) = 1 /\ s[1].kind \in {"POSITIONAL_ONLY", "POSITIONAL_OR_KEYWORD"}

\* C2: an entry that declares no parameter besides its positional input is
\* never given a named argument, whatever the names Sequential's call
\* receives and whatever the entry calls its input.
C2_NoKwargsForPositionalOnly ==
    \A j \in 1..Len(seq_log) :
        OnlyPositionalInput(seq_entries[seq_log[j].entry])
            => seq_log[j].kwargs = NoKwargs

\* The invocations of the last call are entries 1, 2, ... in that order, the
\* first on Sequential's input and each next one on the result before it.
InOrderAndChained ==
    /\ Len(seq_log) <= Len(seq_entries)
    /\ \A j \in 1..Len(seq_log) :
         /\ seq_log[j].entry = j
         /\ seq_log[j].x = IF j = 1 THEN seq_x
                           ELSE EntryResult(j - 1, seq_log[j - 1].x, seq_log[j - 1].kwargs)

\* The result of the last invocation (the input when there is none).
LastOutput ==
    IF seq_log = << >> THEN seq_x
    ELSE LET c == seq_log[Len(seq_log)] IN EntryResult(c.entry, c.x, c.kwargs)

\* C10 as stated: every call of Sequential invokes each entry exactly once,
\* in construction order, chaining outputs to inputs, and returns the output
\* of the last entry (its input when the list is empty).
C10_EveryCallRunsEveryEntry ==
    seq_status # "idle" =>
        /\ InOrderAndChained
        /\ Len(seq_log) = Len(seq_entries)
        /\ seq_status = "returned"
        /\ seq_ret = LastOutput

\* C10 as amended: a call invokes the entries in construction order, each at
\* most once, chaining outputs to inputs; a call that returns has invoked
\* every entry exactly once and returns the output of the last one (its
\* input when the list is empty); a call in which an entry raises ends with
\* that entry and invokes none after it.
C10_Ordering ==
    seq_status # "idle" =>
        /\ InOrderAndChained
        /\ seq_status = "returned" =>
             Len(seq_log) = Len(seq_entries) /\ seq_ret = LastOutput
        /\ seq_status = "raised" =>
             /\ seq_log # << >>
             /\ ~Binds(seq_entries[Len(seq_log)], seq_log[Len(seq_log)].kwargs)
             /\ \A j \in 1..(Len(seq_log) - 1) : Binds(seq_entries[j], seq_log[j].kwargs)

\* A call of two entries that returns, the second fed with the first's result.
C10_Witness ==
    /\ seq_status = "returned"
    /\ Len(seq_entries) = 2
    /\ Len(seq_log) = 2
    /\ seq_log[2].x # seq_x
    /\ seq_ret = LastOutput

\* ---------------------------------------------------------------- Dropout

\* The keep-probability the call is asked to use: the override when one is
\* supplied, the constructed keep otherwise.
RequestedKeep == IF drop_dropout_keep # None THEN drop_dropout_keep ELSE drop_self_keep

\* The last call returned its input and left the generator as it was.
IdentityNoDraw == drop_ret = drop_x /\ gen_state = drop_gen_before

\* C3: a call with training false, or with a keep-probability >= 1 (the one
\* the call computes, or the one it is asked to use), returns its input and
\* draws nothing from the generator; so does a Dropout constructed with
\* keep = 1 and called without override; and a call that draws had training
\* true and a keep-probability < 1, and drew once.
C3_IdentityWithoutRandomness ==
    drop_status = "called" =>
        /\ ~drop_training => IdentityNoDraw
        /\ RGeq(drop_keep, R(1)) => IdentityNoDraw
        /\ RGeq(RequestedKeep, R(1)) => IdentityNoDraw
        /\ (drop_self_keep = R(1) /\ drop_dropout_keep = None) => IdentityNoDraw
        /\ gen_state # drop_gen_before =>
             /\ drop_training
             /\ ~RGeq(drop_keep, R(1))
             /\ ~RGeq(RequestedKeep, R(1))
             /\ gen_state = drop_gen_before + 1

\* An evaluation call with keep < 1 on a generator that has already been
\* drawn from: it returns its input and leaves the generator where it was.
C3_Witness ==
    /\ drop_status = "called"
    /\ ~drop_training
    /\ drop_dropout_keep = <<1, 2>>
    /\ drop_gen_before >= 1
    /\ IdentityNoDraw

\* C4: whenever a call supplies an override, the keep-probability the call
\* uses is the override, for every override value including 0; the
\* constructed keep is used only when no override is supplied.
C4_OverrideIsUsed ==
    drop_status = "called" =>
        drop_keep = IF drop_dropout_keep # None THEN drop_dropout_keep
                    ELSE drop_self_keep

\* ---------------------------------------------------------- MovingAverage

\* buffer_size copies of init_value followed by the inputs in call order.
SeededInputs == [i \in 1..ma_buffer_size |-> ma_init_value] \o ma_inputs

\* The last buffer_size elements of SeededInputs.
Window ==
    [i \in 1..ma_buffer_size |-> SeededInputs[Len(SeededInputs) - ma_buffer_size + i]]

\* C5: the buffer always holds exactly buffer_size samples, namely the last
\* buffer_size elements of the initial values followed by the inputs, and
\* each call returns their mean; for buffer_size 3, init_value 0 and inputs
\* 3, 6, 9 the calls return 1, 3, 6.
C5_FifoWindow ==
    /\ Len(ma_buffer) = ma_buffer_size
    /\ ma_buffer = Window
    /\ ma_inputs # << >> =>
         ma_ret = Norm(RSum(Window)[1], RSum(Window)[2] * ma_buffer_size)
    /\ (ma_buffer_size = 3 /\ ma_init_value = R(0)) =>
         /\ ma_inputs = <<R(3)>> => ma_ret = R(1)
         /\ ma_inputs = <<R(3), R(6)>> => ma_ret = R(3)
         /\ ma_inputs = <<R(3), R(6), R(9)>> => ma_ret = R(6)

\* The third call of the example: the initial values have all left the window.
C5_Witness ==
    /\ ma_buffer_size = 3
    /\ ma_init_value = R(0)
    /\ ma_inputs = <<R(3), R(6), R(9)>>
    /\ ma_ret = R(6)

\* -------------------------------------------------------------- BatchNorm

\* The mean and the biased variance (the mean squared deviation from the
\* mean) of channel c over the examples in rows.
MeanOf(rows, c) == RMean([n \in 1..Len(rows) |-> rows[n][c]])
BiasedVarOf(rows, c) ==
    RMean([n \in 1..Len(rows) |->
             RMul(RSub(rows[n][c], MeanOf(rows, c)), RSub(rows[n][c], MeanOf(rows, c)))])
MeansOf(rows) == [c \in 1..Len(rows[1]) |-> MeanOf(rows, c)]
BiasedVarsOf(rows) == [c \in 1..Len(rows[1]) |-> BiasedVarOf(rows, c)]

\* running + (1 - momentum) * (stat - running), channel by channel.
EmaStep(running, stat, momentum) ==
    [c \in 1..(IF Len(running) >= Len(stat) THEN Len(running) ELSE Len(stat)) |->
        LET r == IF Len(running) = 1 THEN running[1] ELSE running[c]
            s == IF Len(stat) = 1 THEN stat[1] ELSE stat[c]
        IN  RAdd(r, RMul(RSub(R(1), momentum), RSub(s, r)))]

\* EmaStep applied once per batch, in order, to the batches' means
\* (kind "mean") or biased variances (kind "var").
RECURSIVE EmaOver(_, _, _, _)
EmaOver(start, batches, kind, momentum) ==
    IF batches = << >> THEN start
    ELSE LET x == batches[Len(batches)]
             before == EmaOver(start, SubSeq(batches, 1, Len(batches) - 1), kind, momentum)
         IN  EmaStep(before, IF kind = "mean" THEN MeansOf(x) ELSE BiasedVarsOf(x), momentum)

\* C6: after any interleaving of training and evaluation calls, running_mean
\* and running_var are what the update rule gives when applied from 0 and 1
\* once per training call, in call order, to that call's batch mean and
\* biased batch variance; an evaluation call reads them and leaves them as
\* they are; and evaluation calls with the same input and no training call
\* between them return the same output.
C6_RunningStatistics ==
    /\ bn_running_mean = EmaOver(Zeros(Len(bn_gamma)), bn_trained, "mean", bn_momentum)
    /\ bn_running_var = EmaOver(Ones(Len(bn_gamma)), bn_trained, "var", bn_momentum)
    /\ (bn_last.calls > 0 /\ ~bn_last.training) =>
         bn_last.m = bn_running_mean /\ bn_last.v = bn_running_var
    /\ \A i, j \in 1..Len(bn_evals) :
         bn_evals[i][1] = bn_evals[j][1] => bn_evals[i][2] = bn_evals[j][2]

\* A training call followed by two evaluation calls with the same input.
C6_Witness ==
    /\ Len(bn_trained) = 1
    /\ bn_running_mean # Zeros(Len(bn_gamma))
    /\ Len(bn_evals) = 2
    /\ bn_evals[1][1] = bn_evals[2][1]

\* -------------------------------------------------------- SyncedBatchNorm

\* All the examples of the last call, of every replica's batch.
RECURSIVE RowsUpTo(_)
RowsUpTo(d) == IF d = 0 THEN << >> ELSE RowsUpTo(d - 1) \o sbn_last.xs[d]
UnionRows == RowsUpTo(sbn_devices)

\* Replica d's output of the last call is gamma * (x - m) * rsqrt(v + eps)
\* + beta for the statistics m and v.
NormalizedWith(d, m, v) ==
    \A n \in 1..Len(sbn_last.xs[d]) : \A c \in 1..Len(m) :
        sbn_last.y[d][n][c] =
            [scale |-> RMul(sbn_gamma[d][c], RSub(sbn_last.xs[d][n][c], m[c])),
             radicand |-> RAdd(v[c], Eps),
             shift |-> sbn_beta[d][c]]

\* C7: in a training call the m and v of every replica are the mean and the
\* biased variance of the union of all replicas' batches, the same on every
\* replica; the output is normalised with them and the running statistics
\* are updated with them.
C7_AggregatedStatistics ==
    (sbn_last.calls > 0 /\ sbn_last.training) =>
        \A d \in 1..sbn_devices :
            /\ sbn_last.m[d] = MeansOf(UnionRows)
            /\ sbn_last.v[d] = BiasedVarsOf(UnionRows)
            /\ NormalizedWith(d, MeansOf(UnionRows), BiasedVarsOf(UnionRows))
            /\ sbn_last.batch_norm_update =>
                 /\ sbn_running_mean[d] =
                      EmaStep(sbn_last.mean_before[d], MeansOf(UnionRows), sbn_momentum)
                 /\ sbn_running_var[d] =
                      EmaStep(sbn_last.var_before[d], BiasedVarsOf(UnionRows), sbn_momentum)

\* A training call on two replicas whose shards differ: replica 1's own
\* mean and variance are not the ones it used.
C7_Witness ==
    /\ sbn_last.calls > 0
    /\ sbn_last.training
    /\ sbn_devices = 2
    /\ MeansOf(sbn_last.xs[1]) # sbn_last.m[1]
    /\ BiasedVarsOf(sbn_last.xs[1]) # sbn_last.v[1]
    /\ sbn_last.m[1] = sbn_last.m[2]

\* C8: a training call with batch_norm_update false leaves running_mean and
\* running_var as they were and still normalises its output with the call's
\* aggregated m and v; a training call with batch_norm_update true updates
\* both; an evaluation call leaves both as they were, whatever the flag,
\* and normalises with them.
C8_UpdateFlag ==
    sbn_last.calls > 0 =>
        \A d \in 1..sbn_devices :
            /\ (sbn_last.training /\ ~sbn_last.batch_norm_update) =>
                 /\ sbn_running_mean[d] = sbn_last.mean_before[d]
                 /\ sbn_running_var[d] = sbn_last.var_before[d]
                 /\ NormalizedWith(d, MeansOf(UnionRows), BiasedVarsOf(UnionRows))
            /\ (sbn_last.training /\ sbn_last.batch_norm_update) =>
                 /\ sbn_running_mean[d] =
                      EmaStep(sbn_last.mean_before[d], MeansOf(UnionRows), sbn_momentum)
                 /\ sbn_running_var[d] =
                      EmaStep(sbn_last.var_before[d], BiasedVarsOf(UnionRows), sbn_momentum)
            /\ ~sbn_last.training =>
                 /\ sbn_running_mean[d] = sbn_last.mean_before[d]
                 /\ sbn_running_var[d] = sbn_last.var_before[d]
                 /\ NormalizedWith(d, sbn_last.mean_before[d], sbn_last.var_before[d])

\* A training call with batch_norm_update false after one that updated: the
\* running statistics stay where the first call left them, and they are not
\* the statistics the output is normalised with.
C8_Witness ==
    /\ sbn_last.calls = 2
    /\ sbn_last.training
    /\ ~sbn_last.batch_norm_update
    /\ sbn_last.mean_before[1] # Zeros(1)
    /\ sbn_running_mean = sbn_last.mean_before
    /\ sbn_last.m[1] # sbn_running_mean[1]
    /\ sbn_last.v[1] # sbn_running_var[1]

\* ----------------------------------------------------------------- Conv2D

\* n is a whole multiple of groups.
ExactlyDivisible(n, groups) == \E q \in 0..n : q * groups = n

\* C9: Conv2D.__init__ fails if and only if nin or nout is not a whole
\* multiple of groups, and then no parameter has been created; when it
\* succeeds the kernel's input-channel count times groups is nin, so no
\* channel was truncated away; nin = 4 with groups = 3 fails and nin = 6
\* with groups = 3 succeeds (for an nout groups divides).
C9_ConstructionPrecondition ==
    conv_status # "none" =>
        /\ conv_status \in {"AssertionError", "constructed"}
        /\ conv_status = "AssertionError" <=>
             ~(ExactlyDivisible(conv_args.nin, conv_args.groups)
               /\ ExactlyDivisible(conv_args.nout, conv_args.groups))
        /\ conv_status = "AssertionError" => conv_params = {}
        /\ conv_status = "constructed" =>
             \E p \in conv_params :
                /\ p[1] = "w"
                /\ p[2][3] * conv_args.groups = conv_args.nin
                /\ p[2][4] = conv_args.nout
        /\ (conv_args.nin = 4 /\ conv_args.groups = 3) => conv_status = "AssertionError"
        /\ (conv_args.nin = 6 /\ conv_args.groups = 3 /\ conv_args.nout \in {3, 6}) =>
             conv_status = "constructed"

\* Conv2D(nin=4, ..., groups=3) has failed, with no parameter created.
C9_Witness ==
    /\ conv_status = "AssertionError"
    /\ conv_args.nin = 4
    /\ conv_args.groups = 3
    /\ conv_params = {}

\* ---------------------------------------------------------- Tracked State

\* The shape (1, C) of a BatchNorm statistic held as a vector of C elements.
StatShape(t) == <<1, Len(t)>>

\* running_mean and running_var have the shape of dims, which gamma, never
\* assigned after construction, still has.
BatchNormShapesFixed ==
    /\ StatShape(bn_running_mean) = StatShape(bn_gamma)
    /\ StatShape(bn_running_var) = StatShape(bn_gamma)

SyncedBatchNormShapesFixed ==
    \A d \in 1..sbn_devices :
        /\ StatShape(sbn_running_mean[d]) = StatShape(sbn_gamma[d])
        /\ StatShape(sbn_running_var[d]) = StatShape(sbn_gamma[d])

\* buffer has the shape (buffer_size,) + shape, for shape = ().
MovingAverageShapeFixed == <<Len(ma_buffer)>> = <<ma_buffer_size>>

\* avg has the shape given to ExponentialMovingAverage.
ExponentialMovingAverageShapeFixed == ema_avg.shape = ema_shape

\* C11: after any sequence of calls that returned, every Tracked State of
\* BatchNorm, SyncedBatchNorm, MovingAverage and ExponentialMovingAverage
\* has exactly the shape it had at construction, also when an input's shape
\* differs from the state's shape but broadcasts against it.
C11_OwnedStateShapeFixed ==
    /\ BatchNormShapesFixed
    /\ SyncedBatchNormShapesFixed
    /\ MovingAverageShapeFixed
    /\ ExponentialMovingAverageShapeFixed

====
